---- MODULE Spec2Model ----
(***************************************************************************)
(* A model of the hexflower generator: the axial coordinate algebra        *)
(* (hex.py), ring and spiral traversal (traversal.py), the sparse grid     *)
(* (grid.py), the biome tables (tables.py) and the three generators of     *)
(* generators.py (generate, build_chain, build).                           *)
(*                                                                         *)
(* One call runs at a time.  `call` holds its arguments, `pc` the place in *)
(* its code, `raised` the exception that left it and `returned` the value  *)
(* it gave back.  Every random draw is a nondeterministic choice.          *)
(***************************************************************************)
EXTENDS Integers, Sequences, FiniteSets, Bags, TLC

VARIABLES
    pc,          \* place in the running code
    call,        \* the top-level call and its arguments
    raised,      \* the exception that reached the caller, or NoError
    returned,    \* the value given back to the caller, or NoValue
    varied,      \* how many randint draws so far fell outside the first row
    walk,        \* ring: the locals h, out, side, k of the double loop
    gen,         \* generate: center, radius, the ring r, its cells, the place i
    grid,        \* generate: the grid being filled
    visit,       \* generate: the last hex visited, its predecessor, the branch
    ret_to,      \* generate: where its caller goes on
    super_map,   \* build_chain: the accumulating grid
    new,         \* build_chain: the cluster being placed
    frontier,    \* build_chain: the list of targets, as a bag
    it,          \* build_chain: the iteration of the outer loop
    tries,       \* build_chain: attempts made for the current cluster
    moved,       \* build_chain: the translated cluster of the accepted attempt
    out,         \* build: the accumulating grid
    meta_positions,  \* build: the list of meta-positions
    mi,          \* build: the place in meta_positions
    snowflakes   \* build: the clusters generated so far, in order (history)

vars == <<pc, call, raised, returned, varied, walk, gen, grid, visit, ret_to,
          super_map, new, frontier, it, tries, moved, out, meta_positions, mi,
          snowflakes>>

ringVars  == <<walk>>
genVars   == <<gen, grid, visit, ret_to>>
chainVars == <<super_map, new, frontier, it, tries, moved>>
buildVars == <<out, meta_positions, mi, snowflakes>>

----------------------------------------------------------------------------
(* Bounds of the model *)

\* ring is called with radius in -1..MaxRingRadius
MaxRingRadius == 3
\* centers are drawn from the square -MaxCoord..MaxCoord in q and r
MaxCoord == 1
\* neighbor and scale_dir are called with an index in -MaxIndex..MaxIndex
MaxIndex == 8
\* generate is called with radius in -1..MaxRadius
MaxRadius == 2
\* at most MaxVaried draws of randint in one run fall outside the first row
\* of their table (grassland for the start, the same biome for the next)
MaxVaried == 1
\* build_chain is called with count in 0..MaxCount
MaxCount == 3
\* build_chain is called with max_tries in 0..MaxTries
MaxTries == 2
\* build is called with meta_radius in -1..MaxMeta
MaxMeta == 1
\* build_chain is called with count * (cells of a cluster) <= MaxChainCells
MaxChainCells == 14
\* build is called with (clusters) * (cells of a cluster) <= MaxBuildCells
MaxBuildCells == 49
\* the calls of SpecArgs fill at most MaxArgCells cells
MaxArgCells == 7

----------------------------------------------------------------------------
(* hex.py: axial coordinates, a Hex is the pair <<q, r>> *)

Abs(x) == IF x < 0 THEN -x ELSE x

Max3(a, b, c) ==
    LET ab == IF a >= b THEN a ELSE b
    IN  IF ab >= c THEN ab ELSE c

\* Hex.DIRS, a tuple of six pairs; Python indexes it from 0
DIRS == << <<1, 0>>, <<1, -1>>, <<0, -1>>, <<-1, 0>>, <<-1, 1>>, <<0, 1>> >>

NDirs == Len(DIRS)

\* DIRS[i] of Python: an index in -6..-1 counts from the end, any other
\* index outside 0..5 raises IndexError
IndexInRange(i) == -NDirs <= i /\ i < NDirs

DirAt(i) == IF i >= 0 THEN DIRS[i + 1] ELSE DIRS[i + NDirs + 1]

add(hx, dq, dr) == <<hx[1] + dq, hx[2] + dr>>

\* for an index DIRS accepts
neighbor(hx, direction_index) ==
    LET d == DirAt(direction_index)
    IN  <<hx[1] + d[1], hx[2] + d[2]>>

neighbors(hx) == [j \in 1..6 |-> neighbor(hx, j - 1)]

scale_dir(hx, direction_index, k) ==
    LET d == DirAt(direction_index)
    IN  <<hx[1] + d[1] * k, hx[2] + d[2] * k>>

distance(a, b) ==
    LET dq == a[1] - b[1]
        dr == a[2] - b[2]
    IN  Max3(Abs(dq), Abs(dr), Abs((a[1] + a[2]) - (b[1] + b[2])))

----------------------------------------------------------------------------
(* Exceptions and values *)

NoError == [type |-> "none", msg |-> "", args |-> << >>]
NoValue == "no value"
\* None where a biome is expected, and where a Hex is expected
None    == "None"
NoHex   == << >>

ValueError(m) == [type |-> "ValueError", msg |-> m, args |-> << >>]
IndexError(m) == [type |-> "IndexError", msg |-> m, args |-> << >>]
\* a RuntimeError whose message interpolates the values a
RuntimeError(m, a) == [type |-> "RuntimeError", msg |-> m, args |-> a]

----------------------------------------------------------------------------
(* traversal.py *)

ring_rejects(radius) == radius < 0

\* a walk that starts at W * radius
ring_start_west(center, radius) == scale_dir(center, 3, radius)

\* the start of the walk: SW * radius
ring_start(center, radius) == scale_dir(center, 4, radius)

\* the locals as the double loop is entered
ring_enter(center, radius) ==
    [h |-> ring_start(center, radius), out |-> << >>, side |-> 0, k |-> 0]

\* one pass of the inner body: out.append(h); h = h.neighbor(side)
ring_step(w, radius) ==
    LET k1 == w.k + 1
    IN  [h    |-> neighbor(w.h, w.side),
         out  |-> Append(w.out, w.h),
         side |-> IF k1 = radius THEN w.side + 1 ELSE w.side,
         k    |-> IF k1 = radius THEN 0 ELSE k1]

RECURSIVE ring_run(_, _)
ring_run(w, radius) ==
    IF w.side >= 6 THEN w ELSE ring_run(ring_step(w, radius), radius)

\* HexTraversal.ring for radius >= 0
ring(center, radius) ==
    IF radius = 0 THEN <<center>>
    ELSE ring_run(ring_enter(center, radius), radius).out

RECURSIVE spiral_from(_, _, _)
spiral_from(center, r, radius) ==
    IF r > radius THEN << >>
    ELSE ring(center, r) \o spiral_from(center, r + 1, radius)

\* HexTraversal.spiral
spiral(center, radius) == spiral_from(center, 0, radius)

----------------------------------------------------------------------------
(* grid.py: a HexGrid is a function from its coordinates to their values.   *)
(* The insertion order of the dict is left out: nothing modelled reads it   *)
(* but the order of a random choice, which is nondeterministic anyway.      *)

EmptyGrid == << >>

contains(g, hx) == hx \in DOMAIN g

keys(g) == DOMAIN g

get(g, hx) == IF hx \in DOMAIN g THEN g[hx] ELSE None

set(g, hx, value) ==
    [x \in DOMAIN g \cup {hx} |-> IF x = hx THEN value ELSE g[x]]

\* dict.update: the values of other replace those of self
update(self, other) ==
    [x \in DOMAIN self \cup DOMAIN other |->
        IF x \in DOMAIN other THEN other[x] ELSE self[x]]

\* a check that only asks that other is not wholly inside self
is_disjoint_partly(self, other) == ~(DOMAIN other \subseteq DOMAIN self)

is_disjoint(self, other) == DOMAIN self \cap DOMAIN other = {}

touches(self, other) ==
    \E hx \in DOMAIN self : \E j \in 1..6 : neighbors(hx)[j] \in DOMAIN other

\* a translation that takes dq for dr and dr for dq
translate_swapped(g, dq, dr) ==
    [x \in {add(hx, dr, dq) : hx \in DOMAIN g} |-> g[add(x, -dr, -dq)]]

translate(g, dq, dr) ==
    [x \in {add(hx, dq, dr) : hx \in DOMAIN g} |-> g[add(x, -dq, -dr)]]

----------------------------------------------------------------------------
(* tables.py: x is the draw rng.randint(1, 10) *)

Rolls == 1..10

\* the last roll of the first row of the start table, and of the next table
StartFirstRow == 4
NextFirstRow == 5

start_biome(x) ==
    IF 1 <= x /\ x <= StartFirstRow THEN "grassland"
    ELSE IF 5 <= x /\ x <= 6 THEN "forest"
    ELSE IF 7 <= x /\ x <= 8 THEN "hills"
    ELSE IF x = 9 THEN "marsh"
    ELSE "mountains"

next_biome(prev, x) ==
    IF 1 <= x /\ x <= NextFirstRow THEN prev
    ELSE IF x = 6 THEN "grassland"
    ELSE IF x = 7 THEN "forest"
    ELSE IF x = 8 THEN "hills"
    ELSE IF x = 9 THEN "marsh"
    ELSE "mountains"

\* the draws the model follows: all of them while fewer than MaxVaried
\* draws fell outside the first row (the rolls 1..top), and after that the
\* roll 1 alone, which stands for its row
Draws == IF varied < MaxVaried THEN Rolls ELSE {1}

Drawn(x, top) == varied' = IF x <= top THEN varied ELSE varied + 1

----------------------------------------------------------------------------
(* generators.py: SnowflakeHexflowerGenerator *)

\* a check that lets the radius -1 pass
generate_rejects_below(radius) == radius < -1

generate_rejects(radius) == radius < 0

\* range(1, radius) in place of range(1, radius + 1)
last_ring_short(radius) == radius - 1

\* the last ring of the loop for r in range(1, radius + 1)
last_ring(radius) == radius

inward_candidates(target, center, g) ==
    LET dist_target == distance(target, center)
    IN  SelectSeq(neighbors(target),
                  LAMBDA nb : contains(g, nb)
                              /\ distance(nb, center) = dist_target - 1)

filled_neighbors(target, g) ==
    SelectSeq(neighbors(target), LAMBDA nb : contains(g, nb))

\* the last inward candidate in place of the first
choose_last_inward(target, center, g) ==
    LET cands == inward_candidates(target, center, g)
        any   == filled_neighbors(target, g)
    IN  IF Len(cands) > 0 THEN cands[Len(cands)]
        ELSE IF Len(any) > 0 THEN any[1]
        ELSE NoHex

\* _choose_inward_neighbor: a Hex, or None
choose_inward_neighbor(target, center, g) ==
    LET cands == inward_candidates(target, center, g)
        any   == filled_neighbors(target, g)
    IN  IF Len(cands) > 0 THEN cands[1]
        ELSE IF Len(any) > 0 THEN any[1]
        ELSE NoHex

\* the body of the inner loop of generate for the hex hx and the draw x
fill_hex(g, hx, center, x) ==
    LET prev_hex == choose_inward_neighbor(hx, center, g)
    IN  IF prev_hex = NoHex
        THEN set(g, hx, start_biome(x))
        ELSE LET got == get(g, prev_hex)
                 prev_biome == IF got = None \/ got = "" THEN "grassland" ELSE got
             IN  set(g, hx, next_biome(prev_biome, x))

NoGen   == [center |-> <<0, 0>>, radius |-> 0, r |-> 0, cells |-> << >>, i |-> 0]
NoVisit == [h |-> NoHex, prev_hex |-> NoHex]
NoWalk  == [h |-> <<0, 0>>, out |-> << >>, side |-> 0, k |-> 0]

\* a call of generate(center, radius) whose caller goes on at ret
CallGenerate(center, radius, ret) ==
    /\ pc' = "generate"
    /\ gen' = [center |-> center, radius |-> radius, r |-> 0, cells |-> << >>,
               i |-> 0]
    /\ ret_to' = ret
    /\ grid' = EmptyGrid
    /\ visit' = NoVisit

\* the radius check, and the center
GenStart ==
    /\ pc = "generate"
    /\ IF generate_rejects(gen.radius)
       THEN /\ raised' = ValueError("radius must be >= 0")
            /\ pc' = "raised"
            /\ UNCHANGED <<grid, gen, varied>>
       ELSE \E x \in Draws :
            /\ Drawn(x, StartFirstRow)
            /\ grid' = set(EmptyGrid, gen.center, start_biome(x))
            /\ gen' = [gen EXCEPT !.r = 1, !.i = 1,
                                   !.cells = IF gen.radius >= 1
                                             THEN ring(gen.center, 1)
                                             ELSE << >>]
            /\ pc' = "generate_loop"
            /\ UNCHANGED raised
    /\ UNCHANGED <<call, returned, walk, visit, ret_to>>
    /\ UNCHANGED <<chainVars, buildVars>>

\* one hex of gen.cells, which is ring(center, r)
GenVisit ==
    /\ pc = "generate_loop"
    /\ gen.r <= last_ring(gen.radius)
    /\ LET hx == gen.cells[gen.i]
           prev_hex == choose_inward_neighbor(hx, gen.center, grid)
           top == IF prev_hex = NoHex THEN StartFirstRow ELSE NextFirstRow
       IN  /\ \E x \in Draws :
                /\ Drawn(x, top)
                /\ grid' = fill_hex(grid, hx, gen.center, x)
           /\ visit' = [h |-> hx, prev_hex |-> prev_hex]
           /\ gen' = IF gen.i < Len(gen.cells)
                     THEN [gen EXCEPT !.i = gen.i + 1]
                     ELSE [gen EXCEPT !.r = gen.r + 1, !.i = 1,
                                      !.cells = IF gen.r + 1 <= gen.radius
                                                THEN ring(gen.center, gen.r + 1)
                                                ELSE << >>]
    /\ UNCHANGED <<pc, call, raised, returned, walk, ret_to>>
    /\ UNCHANGED <<chainVars, buildVars>>

\* return grid
GenReturn ==
    /\ pc = "generate_loop"
    /\ gen.r > last_ring(gen.radius)
    /\ IF call.op = "generate"
       THEN pc' = "done" /\ returned' = grid
       ELSE pc' = ret_to /\ UNCHANGED returned
    /\ UNCHANGED <<call, raised, varied, walk, gen, grid, visit, ret_to>>
    /\ UNCHANGED <<chainVars, buildVars>>

----------------------------------------------------------------------------
(* The calls the model makes *)

Centers == {<<q, r>> : q \in -MaxCoord..MaxCoord, r \in -MaxCoord..MaxCoord}

\* the centers generate is called with
GenCenters == {<<0, 0>>, <<2, -3>>, <<-1, -4>>}

Idle ==
    /\ pc = "start"
    /\ raised = NoError
    /\ returned = NoValue
    /\ varied = 0
    /\ walk = NoWalk
    /\ gen = NoGen
    /\ grid = EmptyGrid
    /\ visit = NoVisit
    /\ ret_to = "none"
    /\ super_map = EmptyGrid
    /\ new = EmptyGrid
    /\ frontier = EmptyBag
    /\ it = 0
    /\ tries = 0
    /\ moved = EmptyGrid
    /\ out = EmptyGrid
    /\ meta_positions = << >>
    /\ mi = 0
    /\ snowflakes = << >>

HexCalls ==
    {[op |-> "neighbor", self |-> c, direction_index |-> i] :
        c \in Centers, i \in -MaxIndex..MaxIndex}
    \cup
    {[op |-> "scale_dir", self |-> c, direction_index |-> i, k |-> k] :
        c \in Centers, i \in -MaxIndex..MaxIndex, k \in -1..2}
    \cup
    {[op |-> "distance", self |-> c, other |-> d] : c \in Centers, d \in Centers}
    \cup
    {[op |-> "add", self |-> c, dq |-> d[1], dr |-> d[2]] :
        c \in Centers, d \in Centers}

RingCalls ==
    {[op |-> "ring", center |-> c, radius |-> r] :
        c \in Centers, r \in -1..MaxRingRadius}

\* the cells of a cluster of the radius, and the clusters of a meta-radius
HexCount(radius) == 1 + 3 * radius * (radius + 1)

ChainCalls ==
    {c \in [op : {"build_chain"}, count : 0..MaxCount,
            radius : -1..MaxRadius, max_tries : 0..MaxTries] :
        (c.count >= 1 /\ c.radius >= 0)
            => c.count * HexCount(c.radius) <= MaxChainCells}

BuildCalls ==
    {c \in [op : {"build"}, meta_radius : -1..MaxMeta,
            snowflake_radius : -1..MaxRadius] :
        (c.meta_radius >= 0 /\ c.snowflake_radius >= 0)
            => HexCount(c.meta_radius) * HexCount(c.snowflake_radius)
                   <= MaxBuildCells}

GenCalls ==
    {[op |-> "generate", center |-> c, radius |-> r] :
        c \in GenCenters, r \in -1..MaxRadius}

\* the cells a call with valid arguments fills
CellsOf(c) ==
    IF c.op = "generate" THEN HexCount(c.radius)
    ELSE IF c.op = "build_chain" THEN c.count * HexCount(c.radius)
    ELSE IF c.op = "build"
    THEN HexCount(c.meta_radius) * HexCount(c.snowflake_radius)
    ELSE 0

\* the calls of the four operations that check their arguments: every
\* call with an invalid argument, and the valid ones of at most MaxArgCells
ArgCalls ==
    {c \in RingCalls \cup GenCalls \cup ChainCalls \cup BuildCalls :
        \/ c.op = "ring"
        \/ c.op = "generate" /\ c.radius < 0
        \/ c.op = "build_chain" /\ (c.count < 1 \/ c.radius < 0)
        \/ c.op = "build" /\ (c.meta_radius < 0 \/ c.snowflake_radius < 0)
        \/ CellsOf(c) <= MaxArgCells}

----------------------------------------------------------------------------
(* hex.py as calls *)

Unchanged == UNCHANGED <<varied, ringVars, genVars, chainVars, buildVars>>

Neighbor ==
    /\ pc = "start" /\ call.op = "neighbor"
    /\ IF IndexInRange(call.direction_index)
       THEN /\ returned' = neighbor(call.self, call.direction_index)
            /\ pc' = "done"
            /\ UNCHANGED raised
       ELSE /\ raised' = IndexError("tuple index out of range")
            /\ pc' = "raised"
            /\ UNCHANGED returned
    /\ UNCHANGED call /\ Unchanged

ScaleDir ==
    /\ pc = "start" /\ call.op = "scale_dir"
    /\ IF IndexInRange(call.direction_index)
       THEN /\ returned' = scale_dir(call.self, call.direction_index, call.k)
            /\ pc' = "done"
            /\ UNCHANGED raised
       ELSE /\ raised' = IndexError("tuple index out of range")
            /\ pc' = "raised"
            /\ UNCHANGED returned
    /\ UNCHANGED call /\ Unchanged

Distance ==
    /\ pc = "start" /\ call.op = "distance"
    /\ returned' = distance(call.self, call.other)
    /\ pc' = "done"
    /\ UNCHANGED <<call, raised>> /\ Unchanged

Add ==
    /\ pc = "start" /\ call.op = "add"
    /\ returned' = add(call.self, call.dq, call.dr)
    /\ pc' = "done"
    /\ UNCHANGED <<call, raised>> /\ Unchanged

----------------------------------------------------------------------------
(* traversal.py: ring as a call *)

RingStart ==
    /\ pc = "start" /\ call.op = "ring"
    /\ IF ring_rejects(call.radius)
       THEN /\ raised' = ValueError("radius must be >= 0")
            /\ pc' = "raised"
            /\ UNCHANGED <<returned, walk>>
       ELSE IF call.radius = 0
       THEN /\ returned' = <<call.center>>
            /\ pc' = "done"
            /\ UNCHANGED <<raised, walk>>
       ELSE /\ walk' = ring_enter(call.center, call.radius)
            /\ pc' = "ring_loop"
            /\ UNCHANGED <<raised, returned>>
    /\ UNCHANGED <<call, varied, genVars, chainVars, buildVars>>

RingStep ==
    /\ pc = "ring_loop"
    /\ walk.side < 6
    /\ walk' = ring_step(walk, call.radius)
    /\ UNCHANGED <<pc, call, raised, returned, varied>>
    /\ UNCHANGED <<genVars, chainVars, buildVars>>

RingReturn ==
    /\ pc = "ring_loop"
    /\ walk.side >= 6
    /\ returned' = walk.out
    /\ pc' = "done"
    /\ UNCHANGED <<call, raised, varied, walk>>
    /\ UNCHANGED <<genVars, chainVars, buildVars>>

----------------------------------------------------------------------------
(* generate as a call *)

GenCall ==
    /\ pc = "start" /\ call.op = "generate"
    /\ CallGenerate(call.center, call.radius, "done")
    /\ UNCHANGED <<call, raised, returned, varied, walk>>
    /\ UNCHANGED <<chainVars, buildVars>>

----------------------------------------------------------------------------
(* generators.py: ConnectedHexflowerBuilder.build_chain *)

chain_rejects(count) == count < 1

\* the list frontier, as the bag of its entries: one entry for every pair
\* of a hex of super_map and a direction whose neighbor is not in super_map
frontier_of(g) ==
    LET super_set == keys(g)
        entries == {e \in super_set \X (0..5) :
                        neighbor(e[1], e[2]) \notin super_set}
        cells == {neighbor(e[1], e[2]) : e \in entries}
    IN  [c \in cells |->
            Cardinality({e \in entries : neighbor(e[1], e[2]) = c})]

\* a message that interpolates nothing
placement_failure_plain(max_tries) ==
    RuntimeError("Failed to place a connected snowflake without overlap. Try increasing max_tries.",
                 << >>)

\* the message of the failed placement interpolates max_tries alone
placement_failure(max_tries) ==
    RuntimeError("Failed to place a connected snowflake without overlap after {max_tries} attempts. Try increasing max_tries.",
                 <<max_tries>>)

\* the count check, and the call that generates the first cluster
ChainStart ==
    /\ pc = "start" /\ call.op = "build_chain"
    /\ IF chain_rejects(call.count)
       THEN /\ raised' = ValueError("count must be >= 1")
            /\ pc' = "raised"
            /\ UNCHANGED genVars
       ELSE /\ CallGenerate(<<0, 0>>, call.radius, "chain_first")
            /\ UNCHANGED raised
    /\ UNCHANGED <<call, returned, varied, walk>>
    /\ UNCHANGED <<chainVars, buildVars>>

\* super_map.update(<the first cluster>)
ChainFirst ==
    /\ pc = "chain_first"
    /\ super_map' = update(EmptyGrid, grid)
    /\ it' = 0
    /\ pc' = "chain_loop"
    /\ UNCHANGED <<call, raised, returned, varied, walk, genVars>>
    /\ UNCHANGED <<new, frontier, tries, moved, buildVars>>

\* one more pass of the outer loop: the call that generates the cluster
ChainNext ==
    /\ pc = "chain_loop"
    /\ it < call.count - 1
    /\ CallGenerate(<<0, 0>>, call.radius, "chain_new")
    /\ UNCHANGED <<call, raised, returned, varied, walk>>
    /\ UNCHANGED <<chainVars, buildVars>>

\* the frontier of the pass
ChainFrontier ==
    /\ pc = "chain_new"
    /\ new' = grid
    /\ frontier' = frontier_of(super_map)
    /\ tries' = 0
    /\ IF frontier_of(super_map) = EmptyBag
       THEN /\ raised' = RuntimeError("No frontier found; super_map unexpectedly has no empty adjacent hexes.", << >>)
            /\ pc' = "raised"
       ELSE /\ pc' = "chain_try"
            /\ UNCHANGED raised
    /\ UNCHANGED <<call, returned, varied, walk, genVars>>
    /\ UNCHANGED <<super_map, it, moved, buildVars>>

\* one attempt: target and anchor are drawn, the cluster is translated and
\* checked, and merged when both checks pass
ChainAttempt ==
    /\ pc = "chain_try"
    /\ tries < call.max_tries
    /\ \E target \in BagToSet(frontier) : \E anchor \in keys(new) :
        LET dq == target[1] - anchor[1]
            dr == target[2] - anchor[2]
            mv == translate(new, dq, dr)
        IN  IF ~is_disjoint(super_map, mv)
            THEN /\ tries' = tries + 1
                 /\ UNCHANGED <<pc, super_map, moved, it>>
            ELSE IF ~touches(super_map, mv)
            THEN /\ tries' = tries + 1
                 /\ UNCHANGED <<pc, super_map, moved, it>>
            ELSE /\ super_map' = update(super_map, mv)
                 /\ moved' = mv
                 /\ it' = it + 1
                 /\ pc' = "chain_loop"
                 /\ UNCHANGED tries
    /\ UNCHANGED <<call, raised, returned, varied, walk, genVars>>
    /\ UNCHANGED <<new, frontier, buildVars>>

\* the attempts are used up and the cluster is not placed
ChainExhausted ==
    /\ pc = "chain_try"
    /\ tries >= call.max_tries
    /\ raised' = placement_failure(call.max_tries)
    /\ pc' = "raised"
    /\ UNCHANGED <<call, returned, varied, walk, genVars>>
    /\ UNCHANGED <<chainVars, buildVars>>

\* return super_map
ChainReturn ==
    /\ pc = "chain_loop"
    /\ it >= call.count - 1
    /\ returned' = super_map
    /\ pc' = "done"
    /\ UNCHANGED <<call, raised, varied, walk, genVars>>
    /\ UNCHANGED <<chainVars, buildVars>>

----------------------------------------------------------------------------
(* generators.py: ConcentricHexflowerOfHexflowersBuilder.build *)

build_rejects_meta(meta_radius) == meta_radius < 0

build_rejects_snowflake(snowflake_radius) == snowflake_radius < 0

spacing(snowflake_radius) == 2 * snowflake_radius

\* the center of the cluster of the meta-position mh
center_of(mh, snowflake_radius) ==
    <<mh[1] * spacing(snowflake_radius), mh[2] * spacing(snowflake_radius)>>

\* a merge in which the later cluster overwrites
last_wins(o, snowflake) == update(o, snowflake)

\* the merge loop: a cell of snowflake is set where out holds none
first_wins(o, snowflake) ==
    [x \in DOMAIN o \cup DOMAIN snowflake |->
        IF get(o, x) = None THEN snowflake[x] ELSE o[x]]

BuildStart ==
    /\ pc = "start" /\ call.op = "build"
    /\ IF build_rejects_meta(call.meta_radius)
       THEN /\ raised' = ValueError("meta_radius must be >= 0")
            /\ pc' = "raised"
            /\ UNCHANGED <<out, meta_positions, mi>>
       ELSE IF build_rejects_snowflake(call.snowflake_radius)
       THEN /\ raised' = ValueError("snowflake_radius must be >= 0")
            /\ pc' = "raised"
            /\ UNCHANGED <<out, meta_positions, mi>>
       ELSE /\ out' = EmptyGrid
            /\ meta_positions' = spiral(<<0, 0>>, call.meta_radius)
            /\ mi' = 1
            /\ pc' = "build_loop"
            /\ UNCHANGED raised
    /\ UNCHANGED <<call, returned, varied, walk, genVars>>
    /\ UNCHANGED <<chainVars, snowflakes>>

\* one more meta-position: the call that generates its cluster
BuildNext ==
    /\ pc = "build_loop"
    /\ mi <= Len(meta_positions)
    /\ CallGenerate(center_of(meta_positions[mi],
                              call.snowflake_radius),
                    call.snowflake_radius, "build_merge")
    /\ UNCHANGED <<call, raised, returned, varied, walk>>
    /\ UNCHANGED <<chainVars, buildVars>>

\* the merge of the cluster into out
BuildMerge ==
    /\ pc = "build_merge"
    /\ out' = first_wins(out, grid)
    /\ snowflakes' = Append(snowflakes, grid)
    /\ mi' = mi + 1
    /\ UNCHANGED meta_positions
    /\ pc' = "build_loop"
    /\ UNCHANGED <<call, raised, returned, varied, walk, genVars>>
    /\ UNCHANGED chainVars

\* return out
BuildReturn ==
    /\ pc = "build_loop"
    /\ mi > Len(meta_positions)
    /\ returned' = out
    /\ pc' = "done"
    /\ UNCHANGED <<call, raised, varied, walk, genVars>>
    /\ UNCHANGED <<chainVars, buildVars>>

----------------------------------------------------------------------------
(* Specifications *)

InitHex  == call \in HexCalls /\ Idle
NextHex  == Neighbor \/ ScaleDir \/ Distance \/ Add
SpecHex  == InitHex /\ [][NextHex]_vars

InitRing == call \in RingCalls /\ Idle
NextRing == RingStart \/ RingStep \/ RingReturn
SpecRing == InitRing /\ [][NextRing]_vars

InitGen  == call \in GenCalls /\ Idle
NextGen  == GenCall \/ GenStart \/ GenVisit \/ GenReturn
SpecGen  == InitGen /\ [][NextGen]_vars


InitChain == call \in ChainCalls /\ Idle
NextChain ==
    \/ ChainStart \/ ChainFirst \/ ChainNext \/ ChainFrontier
    \/ ChainAttempt \/ ChainExhausted \/ ChainReturn
    \/ GenStart \/ GenVisit \/ GenReturn
SpecChain == InitChain /\ [][NextChain]_vars

InitBuild == call \in BuildCalls /\ Idle
NextBuild ==
    \/ BuildStart \/ BuildNext \/ BuildMerge \/ BuildReturn
    \/ GenStart \/ GenVisit \/ GenReturn
SpecBuild == InitBuild /\ [][NextBuild]_vars

InitArgs == call \in ArgCalls /\ Idle
NextArgs ==
    \/ RingStart \/ RingStep \/ RingReturn
    \/ GenCall \/ GenStart \/ GenVisit \/ GenReturn
    \/ ChainStart \/ ChainFirst \/ ChainNext \/ ChainFrontier
    \/ ChainAttempt \/ ChainExhausted \/ ChainReturn
    \/ BuildStart \/ BuildNext \/ BuildMerge \/ BuildReturn
SpecArgs == InitArgs /\ [][NextArgs]_vars

Init == call \in HexCalls \cup RingCalls \cup GenCalls \cup ChainCalls \cup BuildCalls
        /\ Idle
Next == NextHex \/ NextArgs
Spec == Init /\ [][Next]_vars

----------------------------------------------------------------------------
(* Properties.  They are stated on coordinates, not through the operators   *)
(* of the code they are about.                                              *)

\* the coordinates at hex distance <= radius from c
Disk(c, radius) ==
    {hx \in (c[1] - radius .. c[1] + radius) \X (c[2] - radius .. c[2] + radius) :
        distance(hx, c) <= radius}

Adjacent(a, b) == distance(a, b) = 1

\* the elements of a sequence
Range(sq) == {sq[j] : j \in 1..Len(sq)}

Least(S) == CHOOSE m \in S : \A n \in S : m <= n

(* C1: in build_chain every cluster merged into the super-grid shares no    *)
(* coordinate with the super-grid it is merged into, so that no cell of it  *)
(* is overwritten, and, when that super-grid is not empty (every cluster    *)
(* after the first), has a coordinate edge-adjacent to one of its           *)
(* coordinates.                                                             *)
C1_MergedDisjointAndTouching ==
    [][ super_map' # super_map =>
          LET added == DOMAIN super_map' \ DOMAIN super_map
              cluster == IF super_map = EmptyGrid THEN grid ELSE moved'
          IN  /\ DOMAIN cluster \cap DOMAIN super_map = {}
              /\ DOMAIN super_map' = DOMAIN super_map \cup DOMAIN cluster
              /\ \A hx \in DOMAIN super_map : super_map'[hx] = super_map[hx]
              /\ \A hx \in DOMAIN cluster : super_map'[hx] = cluster[hx]
              /\ Cardinality(DOMAIN cluster) = HexCount(call.radius)
              /\ super_map # EmptyGrid =>
                    /\ \E a \in DOMAIN cluster : \E b \in DOMAIN super_map :
                          Adjacent(a, b)
                    /\ \E d \in {<<a[1] - b[1], a[2] - b[2]>> :
                                    a \in DOMAIN cluster, b \in DOMAIN new} :
                          /\ DOMAIN cluster =
                                {<<b[1] + d[1], b[2] + d[2]>> : b \in DOMAIN new}
                          /\ \A b \in DOMAIN new :
                                cluster[<<b[1] + d[1], b[2] + d[2]>>] = new[b]
      ]_vars

\* a cluster of radius 1 was placed beside the first with count >= 2
C1_Witness ==
    /\ call.op = "build_chain" /\ call.count >= 2 /\ call.radius = 1
    /\ pc = "chain_loop" /\ it = 1
    /\ Cardinality(DOMAIN super_map) = 14
    /\ moved # EmptyGrid

(* C2: generate(center, radius) with radius >= 0 returns a grid that holds  *)
(* center and has exactly 1 + 3*radius*(radius+1) cells: the coordinates at *)
(* hex distance <= radius from center.                                      *)
C2_GenerateFillsDisk ==
    (pc = "done" /\ call.op = "generate") =>
        /\ call.radius >= 0
        /\ call.center \in DOMAIN returned
        /\ Cardinality(DOMAIN returned)
              = 1 + 3 * call.radius * (call.radius + 1)
        /\ DOMAIN returned = Disk(call.center, call.radius)

\* a grid of radius 2 off the origin was returned, with a draw that varied
C2_Witness ==
    /\ pc = "done" /\ call.op = "generate"
    /\ call.radius = 2 /\ call.center # <<0, 0>>
    /\ \E hx \in DOMAIN returned : returned[hx] # "grassland"

(* C3: ring(c, r) with r >= 0 returns max(1, 6r) coordinates, pairwise      *)
(* distinct, all at distance r from c; the first is c shifted r steps in    *)
(* direction 4; segment i of the walk steps in direction i, and the walk    *)
(* ends back at the start, which is in the list once.                       *)
C3_RingShape ==
    (pc = "done" /\ call.op = "ring") =>
        LET c == call.center
            r == call.radius
            n == IF r = 0 THEN 1 ELSE 6 * r
            \* the place after the j-th of the list: the next of the list,
            \* or where the walk stands at its end
            after(j) == IF j < n THEN returned[j + 1] ELSE walk.h
        IN  /\ r >= 0
            /\ Len(returned) = n
            /\ \A j, k \in 1..n : j # k => returned[j] # returned[k]
            /\ \A j \in 1..n : distance(returned[j], c) = r
            /\ returned[1] = <<c[1] - r, c[2] + r>>
            /\ r >= 1 =>
                  /\ \A j \in 1..n :
                        LET d == DIRS[((j - 1) \div r) + 1]
                        IN  after(j) = <<returned[j][1] + d[1],
                                         returned[j][2] + d[2]>>
                  /\ walk.h = returned[1]
                  /\ walk.side = 6

\* a ring of radius 3 around a center off the origin was returned
C3_Witness ==
    /\ pc = "done" /\ call.op = "ring"
    /\ call.radius = 3 /\ call.center # <<0, 0>>
    /\ Len(returned) = 18

(* C4: in build every coordinate of the accumulating grid holds the value   *)
(* of the first cluster generated so far that has the coordinate, so a      *)
(* value once set never changes; at the return the clusters are those of    *)
(* the meta-positions of spiral(origin, meta_radius), in that order, so an  *)
(* earlier cluster of the spiral wins over a later one.                     *)
C4_FirstClusterWins ==
    call.op = "build" =>
        LET n == Len(snowflakes)
        IN  /\ DOMAIN out = UNION {DOMAIN snowflakes[k] : k \in 1..n}
            /\ \A hx \in DOMAIN out :
                  LET first == Least({k \in 1..n : hx \in DOMAIN snowflakes[k]})
                  IN  out[hx] = snowflakes[first][hx]
            /\ pc = "done" =>
                  /\ returned = out
                  /\ meta_positions = spiral(<<0, 0>>, call.meta_radius)
                  /\ n = Len(meta_positions)
                  /\ \A k \in 1..n :
                        DOMAIN snowflakes[k] =
                            Disk(<<meta_positions[k][1] * 2 * call.snowflake_radius,
                                   meta_positions[k][2] * 2 * call.snowflake_radius>>,
                                 call.snowflake_radius)

\* build returned a grid in which two clusters gave one coordinate two values
C4_Witness ==
    /\ call.op = "build" /\ pc = "done"
    /\ \E j, k \in 1..Len(snowflakes) :
          /\ j < k
          /\ \E hx \in DOMAIN snowflakes[j] \cap DOMAIN snowflakes[k] :
                /\ snowflakes[j][hx] # snowflakes[k][hx]
                /\ \A m \in 1..(j - 1) : hx \notin DOMAIN snowflakes[m]

\* the arguments the four operations reject
InvalidArguments ==
    \/ call.op = "ring" /\ call.radius < 0
    \/ call.op = "generate" /\ call.radius < 0
    \/ call.op = "build_chain" /\ (call.count < 1 \/ call.radius < 0)
    \/ call.op = "build" /\ (call.meta_radius < 0 \/ call.snowflake_radius < 0)

(* C5: ring, generate, build_chain and build called with an invalid         *)
(* argument (a negative radius, count < 1, a negative meta_radius or        *)
(* snowflake_radius) go on until they raise ValueError and return nothing,  *)
(* and called with valid arguments they never raise ValueError.             *)
C5_InvalidArgumentsRejected ==
    call.op \in {"ring", "generate", "build_chain", "build"} =>
        /\ InvalidArguments =>
              /\ returned = NoValue
              /\ pc # "done"
              /\ super_map = EmptyGrid /\ out = EmptyGrid /\ grid = EmptyGrid
              /\ pc = "raised" => raised.type = "ValueError"
              /\ pc # "raised" => ENABLED NextArgs
        /\ ~InvalidArguments => raised.type # "ValueError"

\* build_chain with a valid count and a negative radius raised ValueError
C5_Witness ==
    /\ call.op = "build_chain" /\ call.count >= 1 /\ call.radius < 0
    /\ pc = "raised" /\ raised.type = "ValueError"

(* C6, as amended: each cluster after the first gets at most max_tries      *)
(* attempts, all on the same generated cluster; a rejected attempt changes  *)
(* the count of attempts alone; when max_tries attempts were rejected the   *)
(* build raises RuntimeError, returns nothing and does nothing more, and    *)
(* the message reports the retry budget max_tries and nothing else.         *)
C6_ExhaustionReportsBudget ==
    /\ [](pc = "chain_try" => tries \in 0..call.max_tries)
    /\ []((pc = "raised" /\ raised.type = "RuntimeError") =>
              /\ tries = call.max_tries
              /\ it < call.count - 1
              /\ returned = NoValue
              /\ raised.args = <<call.max_tries>>
              /\ ~ENABLED NextChain)
    /\ [][(pc = "chain_try" /\ pc' # "chain_loop") =>
              /\ new' = new /\ super_map' = super_map /\ it' = it
              /\ frontier' = frontier
              /\ tries' = IF pc' = "chain_try" THEN tries + 1 ELSE tries
         ]_vars

\* two attempts to place a cluster of radius 1 were rejected and the build failed
C6_Witness ==
    /\ call.op = "build_chain" /\ call.radius = 1 /\ call.max_tries = 2
    /\ pc = "raised" /\ raised.type = "RuntimeError"
    /\ tries = 2

(* C6 as claimed: the failure reports the index of the cluster that could   *)
(* not be placed and the retry budget.                                      *)
C6_ReportsIndexAndBudget ==
    (pc = "raised" /\ raised.type = "RuntimeError") =>
        \E a, b \in 1..Len(raised.args) :
            /\ a # b
            /\ raised.args[a] \in {it, it + 1}
            /\ raised.args[b] = call.max_tries

(* C7 as claimed: neighbor(i) returns (q + dq_i, r + dr_i) for i in 0..5    *)
(* and fails for every other integer i.                                     *)
C7_NeighborFailsOutsideZeroToFive ==
    (call.op = "neighbor" /\ pc # "start") =>
        IF call.direction_index \in 0..5
        THEN /\ pc = "done"
             /\ returned =
                   <<call.self[1] + DIRS[call.direction_index + 1][1],
                     call.self[2] + DIRS[call.direction_index + 1][2]>>
        ELSE pc = "raised" /\ returned = NoValue

(* C8 as claimed: the centres are spaced 2*snowflake_radius + 1 apart, so   *)
(* for meta_radius >= 1 no two clusters share a coordinate and clusters at  *)
(* adjacent meta-positions are edge-adjacent.                               *)
C8_SpacingSeparatesClusters ==
    (call.op = "build" /\ call.meta_radius >= 1 /\ call.snowflake_radius >= 0) =>
        \A j, k \in 1..Len(snowflakes) :
            j < k =>
              LET mj == meta_positions[j]
                  mk == meta_positions[k]
                  S  == 2 * call.snowflake_radius + 1
              IN  /\ spacing(call.snowflake_radius) = S
                  /\ <<mk[1] * S, mk[2] * S>> \in DOMAIN snowflakes[k]
                  /\ DOMAIN snowflakes[j] \cap DOMAIN snowflakes[k] = {}
                  /\ Adjacent(mj, mk) =>
                        \E a \in DOMAIN snowflakes[j] :
                            \E c \in DOMAIN snowflakes[k] : Adjacent(a, c)

\* the filled neighbours of the hex last visited that are one step nearer
\* the center, as direction indices
InwardFilled ==
    {j \in 0..5 :
        LET nb == <<visit.h[1] + DIRS[j + 1][1], visit.h[2] + DIRS[j + 1][2]>>
        IN  /\ nb \in DOMAIN grid
            /\ distance(nb, gen.center) = distance(visit.h, gen.center) - 1}

(* C9: when generate visits a hex h of ring r, a neighbour of h at distance *)
(* r - 1 from center is filled; the predecessor is the first such neighbour *)
(* in the direction order 0..5, so no hex but the center gets a fresh       *)
(* start_biome draw.                                                        *)
C9_PredecessorIsFirstInward ==
    (pc = "generate_loop" /\ visit.h # NoHex) =>
        /\ distance(visit.h, gen.center) \in 1..gen.radius
        /\ InwardFilled # {}
        /\ visit.prev_hex # NoHex
        /\ visit.prev_hex =
              <<visit.h[1] + DIRS[Least(InwardFilled) + 1][1],
                visit.h[2] + DIRS[Least(InwardFilled) + 1][2]>>

\* a hex of ring 2 with two filled inward neighbours was visited
C9_Witness ==
    /\ pc = "generate_loop" /\ visit.h # NoHex
    /\ distance(visit.h, gen.center) = 2
    /\ Cardinality(InwardFilled) = 2

\* the coordinates outside g that are edge-adjacent to a coordinate of g
FrontierCells(g) ==
    {hx \in UNION {Disk(b, 1) : b \in DOMAIN g} :
        hx \notin DOMAIN g /\ \E b \in DOMAIN g : Adjacent(hx, b)}

(* C10 as claimed: the targets are the coordinates outside the super-grid   *)
(* that are edge-adjacent to it, each once, and there is at least one.      *)
C10_FrontierHoldsEachCellOnce ==
    pc = "chain_try" =>
        /\ BagToSet(frontier) = FrontierCells(super_map)
        /\ frontier # EmptyBag
        /\ \A hx \in BagToSet(frontier) : CopiesIn(hx, frontier) = 1

\* the translated cluster of the attempt that draws target and anchor
Moved(target, anchor) ==
    translate(new, target[1] - anchor[1], target[2] - anchor[2])

(* C11: in every attempt of build_chain, whatever target and anchor are     *)
(* drawn, the translated cluster holds the target and so touches the        *)
(* super-grid; the attempt is accepted if and only if the translated        *)
(* cluster is disjoint from the super-grid, and a rejected attempt leaves   *)
(* the super-grid and the untranslated cluster as they were.                *)
C11_TouchesNeverRejects ==
    /\ [](pc = "chain_try" =>
            \A target \in BagToSet(frontier) :
                /\ target \notin DOMAIN super_map
                /\ \E b \in DOMAIN super_map : Adjacent(target, b)
                /\ \A anchor \in keys(new) :
                      LET mv == Moved(target, anchor)
                      IN  target \in DOMAIN mv /\ touches(super_map, mv))
    /\ [][(pc = "chain_try" /\ tries < call.max_tries) =>
            IF pc' = "chain_loop"
            THEN /\ tries' = tries
                 /\ \E target \in BagToSet(frontier) \cap DOMAIN super_map' :
                       \E anchor \in keys(new) :
                           LET mv == Moved(target, anchor)
                           IN  /\ is_disjoint(super_map, mv)
                               /\ super_map' = update(super_map, mv)
            ELSE /\ pc' = "chain_try"
                 /\ tries' = tries + 1
                 /\ super_map' = super_map
                 /\ new' = new
                 /\ \E target \in BagToSet(frontier) : \E anchor \in keys(new) :
                       ~is_disjoint(super_map, Moved(target, anchor))
         ]_vars

\* after a rejected attempt on a cluster of radius 1, some draws overlap the
\* super-grid and some do not
C11_Witness ==
    /\ call.op = "build_chain" /\ call.radius = 1
    /\ pc = "chain_try" /\ tries = 1
    /\ \E target \in BagToSet(frontier) : \E anchor \in keys(new) :
          ~is_disjoint(super_map, Moved(target, anchor))
    /\ \E target \in BagToSet(frontier) : \E anchor \in keys(new) :
          is_disjoint(super_map, Moved(target, anchor))

====
